---- MODULE Spec2Model ----
(***************************************************************************)
(* Upload orchestration of AWS-S3-Bucket-Upload.                           *)
(*                                                                         *)
(*   s3-upload-advanced.js : uploadFileToS3, uploadDirectory,              *)
(*                           uploadWithRetry                               *)
(*   basic upload script   : uploadFileToS3 (rethrowing variant),          *)
(*                           uploadMultipleFiles                           *)
(*                                                                         *)
(* JavaScript runs to completion: the event loop delivers the completion   *)
(* of a put only when no JavaScript is runnable.  The actions below are    *)
(* the steps of the async functions between two awaits; PutSettle, the     *)
(* delivery of a completion, is enabled only when none of them is.         *)
(***************************************************************************)
EXTENDS Integers, Sequences, FiniteSets, TLC

VARIABLES
    op,         \* the exported function under execution and its arguments
    disk,       \* local file system: path string -> [kind, size, entries]
    pc,         \* "start" | "await" | "backoff" | "resolved" | "rejected"
    settled,    \* value the operation's promise resolved / rejected with
    calls,      \* invocations of uploadFileToS3, in call order
    puts,       \* PutObject commands handed to s3Client.send, in send order
    attempt,    \* uploadWithRetry: loop variable
    lastError,  \* uploadWithRetry: local variable
    waits,      \* uploadWithRetry: delays handed to setTimeout, in order
    frames,     \* uploadDirectory: activation records, innermost last
    summary     \* uploadMultipleFiles: the counts of the "Upload Summary" log

vars == <<op, disk, pc, settled, calls, puts, attempt, lastError, waits, frames, summary>>

-----------------------------------------------------------------------------
(* Bounds of the model *)

MaxRetries == 3
MaxTasks == 3
MaxEntries == 5

-----------------------------------------------------------------------------
(* JavaScript values that reach string conversion *)

Str(s) == [type |-> "string", val |-> s]
Undefined == [type |-> "undefined", val |-> ""]
Error(m) == [type |-> "Error", val |-> m]
TypeError(m) == [type |-> "TypeError", val |-> m]

\* `${v}` of a template literal
String(v) ==
    CASE v.type = "string" -> v.val
      [] v.type = "undefined" -> "undefined"
      [] v.type = "Error" -> "Error: " \o v.val
      [] v.type = "TypeError" -> "TypeError [ERR_INVALID_ARG_TYPE]: " \o v.val

\* error.message
Message(e) == e.val

-----------------------------------------------------------------------------
(* Configuration *)

BUCKET_NAME == "johnk-files-2026"
AWS_REGION == "eu-north-1"
StreamThreshold == 5 * 1024 * 1024

-----------------------------------------------------------------------------
(* Local file system *)

Missing == [kind |-> "missing", size |-> 0, entries |-> <<>>]
Other == [kind |-> "other", size |-> 0, entries |-> <<>>]
File(n) == [kind |-> "file", size |-> n, entries |-> <<>>]
Dir(names) == [kind |-> "dir", size |-> 4096, entries |-> names]

Lookup(p) == IF p \in DOMAIN disk THEN disk[p] ELSE Missing

\* fs.existsSync: false for anything that is not a path, never throws
existsSync(filePath) ==
    /\ filePath.type = "string"
    /\ Lookup(filePath.val).kind # "missing"

\* path.basename throws ERR_INVALID_ARG_TYPE unless given a string
BasenameError == TypeError("The \"path\" argument must be of type string. Received undefined")

-----------------------------------------------------------------------------
(* s3-upload-advanced.js: uploadFileToS3 *)

S3Url(s3Key) ==
    "https://" \o BUCKET_NAME \o ".s3." \o AWS_REGION \o ".amazonaws.com/" \o s3Key

Success(s3Key, etag) ==
    [success |-> TRUE, s3Key |-> s3Key, url |-> S3Url(s3Key), etag |-> etag]

Failure(message, filePath) ==
    [success |-> FALSE, error |-> message, filePath |-> filePath]

Pending(filePath, s3Key, n) ==
    [filePath |-> filePath, s3Key |-> s3Key, state |-> "pending",
     value |-> Undefined, put |-> n]

Fulfilled(c, v) == [c EXCEPT !.state = "fulfilled", !.value = v]
Rejected(c, e) == [c EXCEPT !.state = "rejected", !.value = e]

\* the catch block: logs path.basename(filePath), then returns a Failure
CatchMutRethrow(c, error) == Rejected(c, error)
Catch(c, error) ==
    IF c.filePath.type # "string"
    THEN Rejected(c, BasenameError)
    ELSE Fulfilled(c, Failure(Message(error), c.filePath))

\* the body handed to PutObjectCommand
UseStreamMutGeq(size) == size >= StreamThreshold
UseStream(size) == size > StreamThreshold

FileContent(filePath) ==
    IF UseStream(Lookup(filePath.val).size)
    THEN [kind |-> "ReadStream", path |-> filePath.val]
    ELSE [kind |-> "Buffer", path |-> filePath.val]

\* the synchronous part of uploadFileToS3, up to `await s3Client.send`:
\* the call record, and whether a command was sent
uploadFileToS3(filePath, s3Key) ==
    LET c == Pending(filePath, s3Key, 0) IN
    IF ~existsSync(filePath)
    THEN [call |-> Catch(c, Error("File not found: " \o String(filePath))),
          sent |-> FALSE]
    ELSE IF /\ ~UseStream(Lookup(filePath.val).size)
            /\ Lookup(filePath.val).kind = "dir"
    THEN [call |-> Catch(c, Error("EISDIR: illegal operation on a directory, read")),
          sent |-> FALSE]
    ELSE [call |-> c, sent |-> TRUE]

PutCommand(filePath, s3Key) ==
    [Bucket |-> BUCKET_NAME, Key |-> s3Key, Body |-> FileContent(filePath),
     status |-> "pending", reply |-> ""]

ETags == {"etag-1"}
PutErrors == {"AccessDenied", "NetworkingError"}

\* the rest of uploadFileToS3 once s3Client.send has settled
AfterSend(c, ok, reply) ==
    IF ok THEN Fulfilled(c, Success(c.s3Key, reply))
    ELSE Catch(c, Error(reply))

-----------------------------------------------------------------------------
(* The basic upload script: uploadFileToS3, whose catch block rethrows *)

CatchFixed(c, error) == Rejected(c, error)

uploadFileToS3Fixed(filePath, s3Key) ==
    LET c == Pending(filePath, s3Key, 0) IN
    IF ~existsSync(filePath)
    THEN [call |-> CatchFixed(c, Error("File not found: " \o String(filePath))),
          sent |-> FALSE]
    ELSE IF Lookup(filePath.val).kind = "dir"
    THEN [call |-> CatchFixed(c, Error("EISDIR: illegal operation on a directory, read")),
          sent |-> FALSE]
    ELSE [call |-> c, sent |-> TRUE]

AfterSendFixed(c, ok, reply) ==
    IF ok THEN Fulfilled(c, [ETag |-> reply])
    ELSE CatchFixed(c, Error(reply))

\* calls and puts after the invocations of uploadFileToS3 for the tasks
\* files[i..], made one after the other (put = 0: no command was sent);
\* module names which of the two files' uploadFileToS3 is called
RECURSIVE InvokeAll(_, _, _, _, _)
InvokeAll(module, files, i, cs, ps) ==
    IF i > Len(files) THEN [calls |-> cs, puts |-> ps]
    ELSE LET r == IF module = "fixed"
                  THEN uploadFileToS3Fixed(files[i].filePath, files[i].s3Key)
                  ELSE uploadFileToS3(files[i].filePath, files[i].s3Key)
         IN  IF r.sent
             THEN InvokeAll(module, files, i + 1,
                            Append(cs, [r.call EXCEPT !.put = Len(ps) + 1]),
                            Append(ps, PutCommand(files[i].filePath, files[i].s3Key)))
             ELSE InvokeAll(module, files, i + 1, Append(cs, r.call), ps)

\* one more invocation of the uploadFileToS3 of s3-upload-advanced.js
Invoke(filePath, s3Key) ==
    LET r == InvokeAll("advanced", <<[filePath |-> filePath, s3Key |-> s3Key]>>, 1,
                       calls, puts) IN
    /\ calls' = r.calls
    /\ puts' = r.puts

-----------------------------------------------------------------------------
(* The event loop *)

LastCall == calls[Len(calls)]

AllSettled(cs) == \A i \in 1..Len(cs) : cs[i].state # "pending"

\* the innermost activation of uploadDirectory
Top == frames[Len(frames)]

\* the for loop of the activation has entries left
InLoop(f) == f.i <= Len(f.files)

\* an element of uploadPromises: the promise of the call-th invocation of
\* uploadFileToS3, or (call = 0) a plain value spread from subResults
IsResolved(item) == IF item.call = 0 THEN TRUE ELSE calls[item.call].state = "fulfilled"
IsRejected(item) == IF item.call = 0 THEN FALSE ELSE calls[item.call].state = "rejected"

AllResolved(items) == \A k \in 1..Len(items) : IsResolved(items[k])
SomeRejected(items) == \E k \in 1..Len(items) : IsRejected(items[k])

\* some async function of the operation can continue without further I/O
Runnable ==
    \/ pc = "start"
    \/ /\ pc = "await"
       /\ op.fn \in {"uploadFileToS3", "uploadWithRetry"}
       /\ LastCall.state # "pending"
    \/ /\ pc = "await"
       /\ op.fn = "uploadMultipleFiles"
       /\ AllSettled(calls)
    \/ /\ pc = "await"
       /\ op.fn = "uploadDirectory"
       /\ \/ InLoop(Top)
          \/ AllResolved(Top.uploadPromises)
          \/ SomeRejected(Top.uploadPromises)

\* s3Client.send of the i-th command settles; the uploadFileToS3 awaiting
\* it runs to its return
PutSettle(i) ==
    /\ ~Runnable
    /\ puts[i].status = "pending"
    /\ \E ok \in BOOLEAN : \E reply \in (IF ok THEN ETags ELSE PutErrors) :
          /\ puts' = [puts EXCEPT ![i].status = IF ok THEN "ok" ELSE "error",
                                  ![i].reply = reply]
          /\ calls' = [k \in 1..Len(calls) |->
                         IF calls[k].put # i THEN calls[k]
                         ELSE IF op.fn = "uploadMultipleFiles"
                              THEN AfterSendFixed(calls[k], ok, reply)
                              ELSE AfterSend(calls[k], ok, reply)]
    /\ UNCHANGED <<op, disk, pc, settled, attempt, lastError, waits, frames, summary>>

-----------------------------------------------------------------------------
(* A direct call of uploadFileToS3 (s3-upload-advanced.js) *)

SingleCall ==
    /\ pc = "start"
    /\ op.fn = "uploadFileToS3"
    /\ Invoke(op.filePath, op.s3Key)
    /\ pc' = "await"
    /\ UNCHANGED <<op, disk, settled, attempt, lastError, waits, frames, summary>>

\* the caller's await on the returned promise
SingleSettled ==
    /\ pc = "await"
    /\ op.fn = "uploadFileToS3"
    /\ LastCall.state # "pending"
    /\ pc' = IF LastCall.state = "fulfilled" THEN "resolved" ELSE "rejected"
    /\ settled' = LastCall.value
    /\ UNCHANGED <<op, disk, calls, puts, attempt, lastError, waits, frames, summary>>

-----------------------------------------------------------------------------
(* uploadWithRetry *)

\* the delay handed to setTimeout
Backoff(a) == 1000 * 2 ^ a

ExhaustedError(maxRetries, e) ==
    Error("Upload failed after " \o ToString(maxRetries) \o " attempts: " \o String(e))

\* result.success
SucceededMutNever(result) == FALSE
Succeeded(result) == result.success

\* result.error: undefined on a Success, which has no such property
ErrorOf(result) == IF result.success THEN Undefined ELSE Str(result.error)

\* lastError = result.error
NoteErrorMutFirst(prev, result) ==
    IF prev = Undefined THEN ErrorOf(result) ELSE prev
NoteError(prev, result) == ErrorOf(result)

\* the loop test with attempt = a and lastError = e, and what follows it:
\* the next call of uploadFileToS3, or the throw after the loop
LoopHead(a, e) ==
    /\ attempt' = a
    /\ lastError' = e
    /\ IF a <= op.maxRetries
       THEN /\ Invoke(op.filePath, op.s3Key)
            /\ pc' = "await"
            /\ UNCHANGED settled
       ELSE /\ pc' = "rejected"
            /\ settled' = ExhaustedError(op.maxRetries, e)
            /\ UNCHANGED <<calls, puts>>

RetryCall ==
    /\ pc = "start"
    /\ op.fn = "uploadWithRetry"
    /\ LoopHead(1, Undefined)
    /\ UNCHANGED <<op, disk, waits, frames, summary>>

\* the await of line 121 resumes with a result: return it or note its error
RetryResult ==
    /\ pc = "await"
    /\ op.fn = "uploadWithRetry"
    /\ LastCall.state = "fulfilled"
    /\ IF Succeeded(LastCall.value)
       THEN /\ pc' = "resolved"
            /\ settled' = LastCall.value
            /\ UNCHANGED <<calls, puts, attempt, lastError>>
       ELSE LoopHead(attempt + 1, NoteError(lastError, LastCall.value))
    /\ UNCHANGED <<op, disk, waits, frames, summary>>

\* the await of line 121 throws: the catch block, with its backoff
RetryCatch ==
    /\ pc = "await"
    /\ op.fn = "uploadWithRetry"
    /\ LastCall.state = "rejected"
    /\ IF attempt < op.maxRetries
       THEN /\ waits' = Append(waits, Backoff(attempt))
            /\ pc' = "backoff"
            /\ lastError' = LastCall.value
            /\ UNCHANGED <<settled, calls, puts, attempt>>
       ELSE /\ LoopHead(attempt + 1, LastCall.value)
            /\ UNCHANGED waits
    /\ UNCHANGED <<op, disk, frames, summary>>

\* the timer of line 134 fires
RetryTimer ==
    /\ pc = "backoff"
    /\ LoopHead(attempt + 1, lastError)
    /\ UNCHANGED <<op, disk, waits, frames, summary>>

-----------------------------------------------------------------------------
(* Specification of uploadFileToS3 and uploadWithRetry *)

Sizes == {0, 1, StreamThreshold - 1, StreamThreshold, StreamThreshold + 1,
          2 * StreamThreshold}

LocalPath == "./f"

Nodes == {Missing, Dir(<<>>)} \cup {File(n) : n \in Sizes}

FilePaths == {Str(LocalPath), Undefined}

UploadOps ==
    [fn : {"uploadFileToS3"}, filePath : FilePaths, s3Key : {"uploads/f"}, maxRetries : {0}]
    \cup
    [fn : {"uploadWithRetry"}, filePath : FilePaths, s3Key : {"uploads/f"},
     maxRetries : 0..MaxRetries]

InitCommon ==
    /\ pc = "start"
    /\ settled = Undefined
    /\ calls = <<>>
    /\ puts = <<>>
    /\ attempt = 0
    /\ lastError = Undefined
    /\ waits = <<>>
    /\ frames = <<>>
    /\ summary = [successful |-> 0, failed |-> 0]

InitUpload ==
    /\ op \in UploadOps
    /\ disk \in {[p \in {LocalPath} |-> n] : n \in Nodes}
    /\ InitCommon

NextUpload ==
    \/ SingleCall
    \/ SingleSettled
    \/ RetryCall
    \/ RetryResult
    \/ RetryCatch
    \/ RetryTimer
    \/ \E i \in 1..Len(puts) : PutSettle(i)

SpecUpload == InitUpload /\ [][NextUpload]_vars

-----------------------------------------------------------------------------
(* The basic upload script: uploadMultipleFiles *)

\* files.map(file => uploadFileToS3(file.filePath, file.s3Key)), then the
\* await of Promise.allSettled
MultiCall ==
    /\ pc = "start"
    /\ op.fn = "uploadMultipleFiles"
    /\ LET r == InvokeAll("fixed", op.files, 1, calls, puts) IN
          /\ calls' = r.calls
          /\ puts' = r.puts
    /\ pc' = "await"
    /\ UNCHANGED <<op, disk, settled, attempt, lastError, waits, frames, summary>>

\* what Promise.allSettled resolves with
SettledResults(cs) ==
    [i \in 1..Len(cs) |-> [status |-> cs[i].state, value |-> cs[i].value]]

\* results.filter(r => r.status === status).length
CountStatusMutFailed(results, status) ==
    Cardinality({i \in 1..Len(results) :
        results[i].status = IF status = "rejected" THEN "failed" ELSE status})
CountStatus(results, status) ==
    Cardinality({i \in 1..Len(results) : results[i].status = status})

\* Promise.allSettled has settled: count, log the summary, return results
MultiSettled ==
    /\ pc = "await"
    /\ op.fn = "uploadMultipleFiles"
    /\ AllSettled(calls)
    /\ LET results == SettledResults(calls) IN
          /\ summary' = [successful |-> CountStatus(results, "fulfilled"),
                         failed |-> CountStatus(results, "rejected")]
          /\ settled' = results
    /\ pc' = "resolved"
    /\ UNCHANGED <<op, disk, calls, puts, attempt, lastError, waits, frames>>

-----------------------------------------------------------------------------
(* Specification of uploadMultipleFiles *)

TaskPath(i) == "./f" \o ToString(i)
TaskKey(i) == "uploads/f" \o ToString(i)

TaskList(n) == [i \in 1..n |-> [filePath |-> Str(TaskPath(i)), s3Key |-> TaskKey(i)]]

TaskNodes == {Missing, File(1), File(StreamThreshold + 1)}

InitMulti ==
    /\ \E n \in 0..MaxTasks :
          /\ op = [fn |-> "uploadMultipleFiles", files |-> TaskList(n)]
          /\ disk \in [{TaskPath(i) : i \in 1..n} -> TaskNodes]
    /\ InitCommon

NextMulti ==
    \/ MultiCall
    \/ MultiSettled
    \/ \E i \in 1..Len(puts) : PutSettle(i)

SpecMulti == InitMulti /\ [][NextMulti]_vars

-----------------------------------------------------------------------------
(* Properties of uploadMultipleFiles *)

IsMulti == op.fn = "uploadMultipleFiles"

\* the puts sent for the i-th task of the list
PutsOfTask(i) == {j \in 1..Len(puts) : puts[j].Key = op.files[i].s3Key}

\* the i-th task fails: its file is missing, or its put is failed
TaskFails(i) ==
    \/ Lookup(op.files[i].filePath.val).kind = "missing"
    \/ \E j \in PutsOfTask(i) : puts[j].status = "error"

\* C5: uploadMultipleFiles on N tasks of which K fail resolves with exactly
\* N results, the i-th being the outcome of the i-th task (rejected iff the
\* task fails), every task with a file having had exactly one put, and it
\* counts successful = N - K and failed = K.
C5_OneResultPerTask ==
    (IsMulti /\ pc = "resolved") =>
        LET N == Len(op.files)
            K == Cardinality({i \in 1..N : TaskFails(i)})
        IN  /\ Len(settled) = N
            /\ \A i \in 1..N :
                  /\ settled[i].status = IF TaskFails(i) THEN "rejected" ELSE "fulfilled"
                  /\ Cardinality(PutsOfTask(i)) =
                        IF Lookup(op.files[i].filePath.val).kind = "missing" THEN 0 ELSE 1
            /\ Len(puts) = Cardinality({i \in 1..N :
                                Lookup(op.files[i].filePath.val).kind # "missing"})
            /\ summary.successful = N - K
            /\ summary.failed = K
            /\ summary.successful + summary.failed = N

C5_Witness ==
    /\ IsMulti
    /\ pc = "resolved"
    /\ Len(op.files) = 3
    /\ Lookup(TaskPath(1)).kind = "missing"
    /\ \E j \in PutsOfTask(2) : puts[j].status = "error"
    /\ \E j \in PutsOfTask(3) : puts[j].status = "ok"
    /\ summary = [successful |-> 1, failed |-> 2]

-----------------------------------------------------------------------------
(* s3-upload-advanced.js: uploadDirectory *)

\* path.join(dirPath, file), for a file name without separators
PathJoin(dirPath, file) ==
    IF dirPath = "" THEN file
    ELSE IF SubSeq(dirPath, Len(dirPath), Len(dirPath)) = "/" THEN dirPath \o file
    ELSE dirPath \o "/" \o file

\* s3Prefix ? `${s3Prefix}/${file}` : file
PrefixedMutDropPrefix(s3Prefix, file) == file
Prefixed(s3Prefix, file) ==
    IF s3Prefix # "" THEN s3Prefix \o "/" \o file ELSE file

\* fs.readdirSync(dirPath): the names, or the error it throws
readdirSyncMutEmpty(dirPath) ==
    IF Lookup(dirPath).kind = "dir"
    THEN [ok |-> TRUE, files |-> Lookup(dirPath).entries, error |-> Undefined]
    ELSE [ok |-> TRUE, files |-> <<>>, error |-> Undefined]
readdirSync(dirPath) ==
    CASE Lookup(dirPath).kind = "dir" ->
           [ok |-> TRUE, files |-> Lookup(dirPath).entries, error |-> Undefined]
      [] Lookup(dirPath).kind = "missing" ->
           [ok |-> FALSE, files |-> <<>>,
            error |-> Error("ENOENT: no such file or directory, scandir '" \o dirPath \o "'")]
      [] OTHER ->
           [ok |-> FALSE, files |-> <<>>,
            error |-> Error("ENOTDIR: not a directory, scandir '" \o dirPath \o "'")]

\* errors of the file system that do not depend on the tree: a directory
\* that may not be listed, an entry that is gone or dangling when stat-ed
ListFault(dirPath) == Error("EACCES: permission denied, scandir '" \o dirPath \o "'")
StatFault(filePath) == Error("ENOENT: no such file or directory, stat '" \o filePath \o "'")

\* uploadDirectory has no try: an error thrown in any activation rejects it
\* and, through the await of line 101, every enclosing one
Throw(error) ==
    /\ pc' = "rejected"
    /\ settled' = error
    /\ frames' = <<>>
    /\ UNCHANGED <<calls, puts>>

\* a call uploadDirectory(dirPath, s3Prefix) made with the activations
\* `stack` suspended: lines 89-90
Enter(dirPath, s3Prefix, stack) ==
    \E fault \in BOOLEAN :
        LET listing == readdirSync(dirPath) IN
        IF ~listing.ok THEN Throw(listing.error)
        ELSE IF fault THEN Throw(ListFault(dirPath))
        ELSE /\ frames' = Append(stack, [dirPath |-> dirPath, s3Prefix |-> s3Prefix,
                                          files |-> listing.files, i |-> 1,
                                          uploadPromises |-> <<>>])
             /\ pc' = "await"
             /\ UNCHANGED <<settled, calls, puts>>

DirCall ==
    /\ pc = "start"
    /\ op.fn = "uploadDirectory"
    /\ Enter(op.dirPath, op.s3Prefix, <<>>)
    /\ UNCHANGED <<op, disk, attempt, lastError, waits, summary>>

\* one iteration of the for loop of the innermost activation: lines 92-106,
\* up to the await of line 101 when the entry is a directory
DirEntry ==
    /\ pc = "await"
    /\ op.fn = "uploadDirectory"
    /\ InLoop(Top)
    /\ LET f == Top
           n == Len(frames)
           file == f.files[f.i]
           filePath == PathJoin(f.dirPath, file)
           stats == Lookup(filePath)
       IN  \E fault \in BOOLEAN :
           IF fault \/ stats.kind = "missing" THEN Throw(StatFault(filePath))
           ELSE CASE stats.kind = "file" ->
                     /\ Invoke(Str(filePath), Prefixed(f.s3Prefix, file))
                     /\ frames' = [frames EXCEPT
                           ![n].uploadPromises =
                               Append(@, [call |-> Len(calls) + 1, value |-> Undefined]),
                           ![n].i = @ + 1]
                     /\ UNCHANGED <<pc, settled>>
                  [] stats.kind = "dir" ->
                     Enter(filePath, Prefixed(f.s3Prefix, file), frames)
                  [] OTHER ->
                     /\ frames' = [frames EXCEPT ![n].i = @ + 1]
                     /\ UNCHANGED <<pc, settled, calls, puts>>
    /\ UNCHANGED <<op, disk, attempt, lastError, waits, summary>>

\* what Promise.all(uploadPromises) resolves with
ResultsOf(items) ==
    [k \in 1..Len(items) |->
        IF items[k].call = 0 THEN items[k].value ELSE calls[items[k].call].value]

\* Promise.all of line 109 settles in the innermost activation; its caller
\* resumes at line 101, spreads subResults and moves to the next entry
DirReturn ==
    /\ pc = "await"
    /\ op.fn = "uploadDirectory"
    /\ ~InLoop(Top)
    /\ LET f == Top
           n == Len(frames)
       IN  IF SomeRejected(f.uploadPromises)
           THEN LET k == CHOOSE k \in 1..Len(f.uploadPromises) :
                             IsRejected(f.uploadPromises[k])
                IN  Throw(calls[f.uploadPromises[k].call].value)
           ELSE /\ AllResolved(f.uploadPromises)
                /\ LET subResults == ResultsOf(f.uploadPromises) IN
                   IF n = 1
                   THEN /\ pc' = "resolved"
                        /\ settled' = subResults
                        /\ frames' = <<>>
                   ELSE /\ frames' = [SubSeq(frames, 1, n - 1) EXCEPT
                              ![n - 1].uploadPromises =
                                  @ \o [k \in 1..Len(subResults) |->
                                           [call |-> 0, value |-> subResults[k]]],
                              ![n - 1].i = @ + 1]
                        /\ UNCHANGED <<pc, settled>>
                /\ UNCHANGED <<calls, puts>>
    /\ UNCHANGED <<op, disk, attempt, lastError, waits, summary>>

-----------------------------------------------------------------------------
(* Specification of uploadDirectory *)

RootPath == "root"
EntryNames == {"a.txt", "b.txt", "sub"}

IsInjective(s) == \A i, j \in 1..Len(s) : s[i] = s[j] => i = j

\* what readdirSync can list: distinct names, in any order
Listings ==
    {l \in UNION {[1..n -> EntryNames] : n \in 0..Cardinality(EntryNames)} :
        IsInjective(l)}

RECURSIVE Trees(_, _)
RECURSIVE Fill(_, _, _, _, _)
RECURSIVE Variants(_, _, _)

\* the trees of the directory dirPath with at most n entries below it, each
\* a set of (path, node) pairs; a listing has at most one subdirectory
Trees(dirPath, n) ==
    UNION {Fill(dirPath, n - Len(l), l, 1, {<<dirPath, Dir(l)>>}) :
               l \in {x \in Listings : Len(x) <= n}}

Fill(dirPath, n, l, i, acc) ==
    IF i > Len(l) THEN {acc}
    ELSE UNION {Fill(dirPath, n, l, i + 1, acc \cup v) :
                    v \in Variants(PathJoin(dirPath, l[i]), l[i], n)}

Variants(p, name, n) ==
    CASE name = "a.txt" -> {{<<p, File(1)>>}}
      [] name = "b.txt" -> {{<<p, File(StreamThreshold + 1)>>}, {<<p, Other>>}}
      [] name = "sub" -> Trees(p, n)

AsDisk(pairs) ==
    [p \in {x[1] : x \in pairs} |-> (CHOOSE x \in pairs : x[1] = p)[2]]

RootDisks ==
    {AsDisk(t) : t \in Trees(RootPath, MaxEntries)}
    \cup {AsDisk({<<RootPath, Missing>>}), AsDisk({<<RootPath, File(1)>>})}

InitDir ==
    /\ op \in [fn : {"uploadDirectory"}, dirPath : {RootPath}, s3Prefix : {"", "uploads"}]
    /\ disk \in RootDisks
    /\ InitCommon

NextDir ==
    \/ DirCall
    \/ DirEntry
    \/ DirReturn
    \/ \E i \in 1..Len(puts) : PutSettle(i)

SpecDir == InitDir /\ [][NextDir]_vars

-----------------------------------------------------------------------------
(* Properties of uploadFileToS3 and uploadWithRetry *)

IsRetry == op.fn = "uploadWithRetry"

\* the i-th invocation of uploadFileToS3 returned a Success / did not
SuccessAt(i) == calls[i].state = "fulfilled" /\ calls[i].value.success
FailedAt(i) == calls[i].state # "pending" /\ ~SuccessAt(i)

\* the i-th invocation sent a put and the storage client failed it
PutFailedAt(i) == calls[i].put # 0 /\ puts[calls[i].put].status = "error"

EndsWith(s, t) ==
    /\ Len(t) <= Len(s)
    /\ SubSeq(s, Len(s) - Len(t) + 1, Len(s)) = t

\* the error message of the i-th, failed, invocation
FailureMessage(i) ==
    IF calls[i].state = "fulfilled" THEN calls[i].value.error ELSE calls[i].value.val

\* C1: a wait of 1000 * 2^attempt ms precedes every retry that follows an
\* attempt whose put the storage client failed; with maxRetries = 3 and a
\* storage client whose every put fails there are exactly 3 attempts,
\* separated by waits of 2000 ms and 4000 ms, before the failure.
C1_BackoffBeforeEveryRetry ==
    IsRetry =>
        /\ \A i \in 2..Len(calls) :
              (\A k \in 1..(i - 1) : PutFailedAt(k)) =>
                  /\ Len(waits) >= i - 1
                  /\ waits[i - 1] = 1000 * 2 ^ (i - 1)
        /\ ( /\ op.maxRetries = 3
             /\ pc = "rejected"
             /\ \A i \in 1..Len(calls) : PutFailedAt(i) )
           => (Len(calls) = 3 /\ waits = <<2000, 4000>>)

\* C2: when attempts 1..k-1 fail and attempt k <= maxRetries succeeds,
\* uploadWithRetry returns the Success of attempt k after exactly k
\* invocations: no invocation follows a successful one, and the operation
\* never ends in an error once an attempt has succeeded.
C2_SuccessAfterKAttempts ==
    IsRetry =>
        /\ \A i \in 1..(Len(calls) - 1) : FailedAt(i)
        /\ pc = "resolved" =>
              /\ Len(calls) \in 1..op.maxRetries
              /\ SuccessAt(Len(calls))
              /\ settled = LastCall.value
        /\ (Len(calls) >= 1 /\ SuccessAt(Len(calls))) => pc \in {"await", "resolved"}

C2_Witness ==
    /\ IsRetry
    /\ pc = "resolved"
    /\ Len(calls) = 2
    /\ PutFailedAt(1)
    /\ settled.success

\* C3: uploadWithRetry never resolves with a Failure result; after
\* maxRetries failed attempts it rejects with an Error whose message ends
\* with the error message of the last failed attempt.
C3_RetriesExhausted ==
    IsRetry =>
        /\ pc = "resolved" => settled.success
        /\ pc = "rejected" =>
              /\ Len(calls) = op.maxRetries
              /\ \A i \in 1..Len(calls) : FailedAt(i)
              /\ settled.type = "Error"
              /\ Len(calls) >= 1 => EndsWith(settled.val, FailureMessage(Len(calls)))
        /\ (Len(calls) = op.maxRetries /\ pc \notin {"start", "await", "backoff"}
              /\ \A i \in 1..Len(calls) : FailedAt(i))
           => pc = "rejected"

C3_Witness ==
    /\ IsRetry
    /\ pc = "rejected"
    /\ op.maxRetries = 3
    /\ \A i \in 1..3 : PutFailedAt(i)
    /\ puts[1].reply # puts[3].reply
    /\ settled = Error("Upload failed after 3 attempts: " \o puts[3].reply)

\* C4: an invocation of uploadFileToS3 with a path string never rejects;
\* for a missing file it sends no put and resolves with {success: false,
\* error: "File not found: <path>", filePath}; when the put fails it
\* resolves with {success: false, error: <the put's error message>, filePath}.
C4_FailureIsAResult ==
    op.fn \in {"uploadFileToS3", "uploadWithRetry"} =>
        \A i \in 1..Len(calls) :
            LET c == calls[i] IN
            c.filePath.type = "string" =>
                /\ c.state # "rejected"
                /\ ~existsSync(c.filePath) =>
                      /\ c.put = 0
                      /\ \A j \in 1..Len(puts) : puts[j].Body.path # c.filePath.val
                      /\ c.state = "fulfilled"
                      /\ c.value = [success |-> FALSE,
                                    error |-> "File not found: " \o c.filePath.val,
                                    filePath |-> c.filePath]
                /\ PutFailedAt(i) =>
                      /\ c.state = "fulfilled"
                      /\ c.value = [success |-> FALSE,
                                    error |-> puts[c.put].reply,
                                    filePath |-> c.filePath]
                /\ (op.fn = "uploadFileToS3" /\ pc \in {"resolved", "rejected"}) =>
                      (pc = "resolved" /\ settled = c.value)

C4_Witness ==
    /\ op.fn = "uploadFileToS3"
    /\ pc = "resolved"
    /\ PutFailedAt(1)
    /\ settled.success = FALSE
    /\ settled.error \in PutErrors

\* C8: the body of a put is a read stream iff the file is larger than
\* 5 * 1024 * 1024 bytes and the file's whole content otherwise; files of
\* 0 bytes and of exactly 5 * 1024 * 1024 bytes are sent as a whole.
C8_StreamIffAboveThreshold ==
    op.fn \in {"uploadFileToS3", "uploadWithRetry"} =>
        /\ \A j \in 1..Len(puts) :
              /\ puts[j].Body.kind \in {"ReadStream", "Buffer"}
              /\ puts[j].Body.kind = "ReadStream"
                    <=> disk[puts[j].Body.path].size > 5 * 1024 * 1024
        /\ \A i \in 1..Len(calls) :
              (calls[i].filePath.type = "string"
                 /\ Lookup(calls[i].filePath.val).kind = "file")
              => calls[i].put # 0

C8_Witness ==
    /\ op.fn = "uploadFileToS3"
    /\ pc = "resolved"
    /\ Len(puts) = 1
    /\ disk[puts[1].Body.path].size = 5 * 1024 * 1024
    /\ puts[1].Body.kind = "Buffer"
    /\ settled.success

-----------------------------------------------------------------------------
(* Properties of uploadDirectory *)

IsDir == op.fn = "uploadDirectory"

\* the regular files of the tree under the root
RegularFiles == {p \in DOMAIN disk : p # RootPath /\ disk[p].kind = "file"}

\* the destination key of the file at path p: its path relative to the
\* root, under the prefix given to the outermost call when there is one
RelativePath(p) == SubSeq(p, Len(op.dirPath) + 2, Len(p))
ExpectedKey(p) ==
    IF op.s3Prefix = "" THEN RelativePath(p)
    ELSE op.s3Prefix \o "/" \o RelativePath(p)

Started == {calls[i].filePath.val : i \in 1..Len(calls)}

\* C6: uploadDirectory invokes uploadFileToS3 only for regular files of the
\* tree, at most once per file, each with one put whose key is the file's
\* path relative to the root, under the prefix if it is not empty; when it
\* resolves, every regular file of the tree has been uploaded.
C6_OneUploadPerFile ==
    IsDir =>
        /\ \A i \in 1..Len(calls) :
              /\ calls[i].filePath.val \in RegularFiles
              /\ calls[i].s3Key = ExpectedKey(calls[i].filePath.val)
              /\ calls[i].put # 0
              /\ puts[calls[i].put].Key = ExpectedKey(calls[i].filePath.val)
              /\ \A j \in 1..Len(calls) :
                    calls[j].filePath = calls[i].filePath => j = i
        /\ Len(puts) = Len(calls)
        /\ pc = "resolved" =>
              /\ Started = RegularFiles
              /\ Len(settled) = Cardinality(RegularFiles)

C6_Witness ==
    /\ IsDir
    /\ pc = "resolved"
    /\ op.s3Prefix = "uploads"
    /\ DOMAIN disk = {"root", "root/a.txt", "root/sub", "root/sub/b.txt"}
    /\ disk["root/sub/b.txt"].kind = "file"
    /\ {puts[j].Key : j \in 1..Len(puts)} = {"uploads/a.txt", "uploads/sub/b.txt"}
    /\ Len(puts) = 2

\* C7: when the root path is missing or is not a directory, uploadDirectory
\* rejects with an error, never resolves, and nothing is uploaded.
C7_InvalidRootFails ==
    (IsDir /\ disk[RootPath].kind # "dir") =>
        /\ pc \in {"start", "rejected"}
        /\ pc = "rejected" => settled.type = "Error"
        /\ calls = <<>>
        /\ puts = <<>>

C7_Witness ==
    /\ IsDir
    /\ disk[RootPath].kind = "missing"
    /\ pc = "rejected"
    /\ puts = <<>>

\* C9: when a batch operation (uploadDirectory, uploadMultipleFiles) has
\* settled, resolved or rejected, no upload it started is still pending.
C9_NoUploadInFlightAtSettle ==
    (op.fn \in {"uploadDirectory", "uploadMultipleFiles"}
       /\ pc \in {"resolved", "rejected"})
    => \A i \in 1..Len(calls) : calls[i].state # "pending"

\* C10: a pending put never delays the start of another file's upload:
\* whenever uploadDirectory can only continue after a put has settled, the
\* upload of every regular file of the tree has already been started.
C10_StallDelaysNoStart ==
    (IsDir /\ pc = "await" /\ ~Runnable) => RegularFiles \subseteq Started

====
